---- MODULE Spec2Model ----
(***************************************************************************)
(* Model of the scheduling engine of the sequencer (calculateSchedule and  *)
(* its helpers tryRescheduleLowerPriorityTasks, getEarliestStartWeek and   *)
(* topologicalSort).  One behaviour is one call of calculateSchedule: Init *)
(* is the moment of the call, with the caller's task records on the heap;  *)
(* the actions are the phases of the function body in program order.       *)
(*                                                                         *)
(* Weeks are 0-based as in the code; the sequences of the model are        *)
(* 1-based, so week w of an array is element w + 1.                        *)
(***************************************************************************)
EXTENDS Integers, Sequences, FiniteSets, TLC

(***************************************************************************)
(* Bounds of the model.                                                    *)
(***************************************************************************)
MaxEffort == 3
MaxCapacity == 2
MaxEngineers == 3
MaxWeek == 12
MaxCalls == 2
\* the second specification: one effort long enough for the quotient
\* effort / (resources * 0.85) to be rounded by the doubles of the code
LongEffort == 153
LongTaskCapacity == 4
LongTaskEngineers == 4

(***************************************************************************)
(* Program constants.                                                      *)
(***************************************************************************)
HighPriorityLimit == 10
MediumPriorityLimit == 100

(***************************************************************************)
(* The inputs the model draws from.  The caller passes the tasks in the    *)
(* order of their ids; every order of every labelled task set is covered   *)
(* because dependencies, efforts and priorities range over every           *)
(* combination.                                                            *)
(***************************************************************************)
MainTaskIds == {1, 2, 3}
Priorities == {5, 50, 200}
Efforts == {1, MaxEffort}
TeamCapacities == 1..MaxCapacity
EngineerLimits == {1, MaxEngineers}
StartWeekHints == {0}
Engines == {"timsort", "insertion"}

Min(a, b) == IF a <= b THEN a ELSE b
Max(a, b) == IF a >= b THEN a ELSE b

\* ceil(a / b) for a >= 0, b > 0
CeilDiv(a, b) == (a + b - 1) \div b

\* dependency arrays: no id twice, at most two entries; a task may name
\* itself only as its single dependency
DepLists(ids, i) ==
  {<<>>} \cup {<<j>> : j \in ids}
         \cup {d \in (ids \ {i}) \X (ids \ {i}) : d[1] # d[2]}

SeqToSet(s) == {s[x] : x \in 1..Len(s)}

(***************************************************************************)
(* JavaScript numbers as stored in the per-week usage arrays: a number, NaN *)
(* or undefined (a hole of the array, or an index past its end).           *)
(***************************************************************************)
Num(n) == [k |-> "num", v |-> n]
NaNValue == [k |-> "nan", v |-> 0]
Undefined == [k |-> "undefined", v |-> 0]

\* arr[w] for a 0-based week w
ArrayGet(arr, w) == IF w + 1 <= Len(arr) THEN arr[w + 1] ELSE Undefined

\* arr[w] = x; writing past the end leaves holes in between
ArraySet(arr, w, x) ==
  IF w + 1 <= Len(arr) THEN [arr EXCEPT ![w + 1] = x]
  ELSE arr \o [y \in 1..(w - Len(arr)) |-> Undefined] \o <<x>>

\* x + n and x - n where n is a number
JsAdd(x, n) == IF x.k = "num" THEN Num(x.v + n) ELSE NaNValue
JsSub(x, n) == IF x.k = "num" THEN Num(x.v - n) ELSE NaNValue
\* mutant of JsGreater: the comparison is >= instead of >
JsGreaterOrEqual(x, n) == x.k = "num" /\ x.v >= n

\* x > n: false as soon as x is NaN
JsGreater(x, n) == x.k = "num" /\ x.v > n
\* if (x): 0, NaN and undefined are falsy
Truthy(x) == x.k = "num" /\ x.v # 0

(***************************************************************************)
(* State.                                                                  *)
(***************************************************************************)
VARIABLES
  heap,                 \* object reference -> task record
  tasks,                \* the caller's list: references of the input records
  given,                \* the input records as they were at the call: the stored tasks
  teamCapacity,
  maxEngineersPerTask,
  engine,               \* the sort algorithm of the JavaScript engine,
                        \* "undetermined" until the outcome of a sort depends on it
  pc,                   \* position in calculateSchedule
  topoSortedTasks,      \* result of topologicalSort (task ids)
  sortedTasks,          \* placement order (task ids)
  cursor,               \* index in sortedTasks of the task being placed
  startWeek,            \* candidate week of the task being placed
  resourcesUsedByWeek,  \* usage accumulator of the first pass
  resourceTimeline,     \* events of the second pass
  eventIndex,           \* i of the timeline traversal
  availableResources,
  runningTasks,
  result,               \* what calculateSchedule returned
  calls,                \* calls of calculateSchedule so far, this one included
  previous              \* the records the call before this one returned

vars == <<heap, tasks, given, teamCapacity, maxEngineersPerTask, engine, pc,
          topoSortedTasks, sortedTasks, cursor, startWeek, resourcesUsedByWeek,
          resourceTimeline, eventIndex, availableResources, runningTasks, result,
          calls, previous>>

\* the ids of the tasks of the call
TaskIds == DOMAIN given
NumTasks == Cardinality(TaskIds)

(***************************************************************************)
(* Task records.  The caller's records carry id, effort, priority,         *)
(* dependencies and startWeek; the working copies (ScheduleTask) add       *)
(* assignedResources, originalEffort and optimized.  A field an object     *)
(* does not have reads as 0 / FALSE here and is never read by the code.    *)
(***************************************************************************)
InputTask(i, e, p, d, s) ==
  [id |-> i, effort |-> e, priority |-> p, dependencies |-> d, startWeek |-> s,
   assignedResources |-> 0, originalEffort |-> 0, optimized |-> FALSE]

\* deps maps each task id to its dependency array.  The dependency relation
\* restricted to present tasks is acyclic exactly when the tasks can be
\* ranked so that every task ranks above each of its present dependencies.
HasCycle(deps) ==
  ~ \E rank \in [DOMAIN deps -> 1..Cardinality(DOMAIN deps)] :
      \A a \in DOMAIN deps :
        \A b \in SeqToSet(deps[a]) \cap DOMAIN deps : rank[b] < rank[a]

AllDepLists(ids) ==
  {<<>>} \cup {<<j>> : j \in ids} \cup {d \in ids \X ids : d[1] # d[2]}

DependencyChoices(ids) ==
  {f \in [ids -> AllDepLists(ids)] : \A i \in ids : f[i] \in DepLists(ids, i)}

AcyclicDependencyChoices(ids) == {f \in DependencyChoices(ids) : ~HasCycle(f)}
CyclicDependencyChoices(ids) == {f \in DependencyChoices(ids) : HasCycle(f)}

\* the caller's records: every acyclic task set; a cyclic one is rejected
\* before its efforts and priorities are looked at, so those are drawn with
\* one value for all tasks
IsInput(in, ids, efforts, priorities) ==
  \E s \in [ids -> StartWeekHints] :
    \/ \E d \in AcyclicDependencyChoices(ids),
          e \in [ids -> efforts], p \in [ids -> priorities] :
          in = [i \in ids |-> InputTask(i, e[i], p[i], d[i], s[i])]
    \/ \E d \in CyclicDependencyChoices(ids), e \in efforts, p \in priorities :
          in = [i \in ids |-> InputTask(i, e, p, d[i], s[i])]

\* the dependency arrays of the call
GivenDependencies == [i \in TaskIds |-> given[i].dependencies]

\* reference of the caller's record of task i
InputRef(i) == i

\* mutant of WorkRef: the working copy is the caller's record itself
WorkRefAliased(i) == InputRef(i)

\* reference of the working copy of task i: { ...task, ... } is a new object
WorkRef(i) == NumTasks + i

\* the state at the call of calculateSchedule with the records of given
Called(capacities, limits) ==
  /\ heap = [r \in {InputRef(i) : i \in TaskIds} |->
               given[CHOOSE i \in TaskIds : InputRef(i) = r]]
  /\ tasks = [i \in 1..NumTasks |-> InputRef(i)]
  /\ teamCapacity \in capacities
  /\ maxEngineersPerTask \in limits
  /\ engine = "undetermined"
  /\ pc = "allocate"
  /\ topoSortedTasks = <<>>
  /\ sortedTasks = <<>>
  /\ cursor = 0
  /\ startWeek = 0
  /\ resourcesUsedByWeek = <<>>
  /\ resourceTimeline = <<>>
  /\ eventIndex = 0
  /\ availableResources = 0
  /\ runningTasks = {}
  /\ result = [kind |-> "none", value |-> <<>>]
  /\ calls = 1
  /\ previous = <<>>

CallOf(ids, efforts, priorities, capacities, limits) ==
  /\ IsInput(given, ids, efforts, priorities)
  /\ Called(capacities, limits)

\* a call with three tasks
Call(efforts, capacities, limits) ==
  CallOf(MainTaskIds, efforts, Priorities, capacities, limits)

Init == Call(Efforts, TeamCapacities, EngineerLimits)

\* calls with two or three tasks of default priority
PackingInit ==
  \E n \in {2, 3} : CallOf(1..n, {1, 2, 3}, {100}, {2, 5}, {1, 2})

\* calls with high and low priority tasks only, two engineers to a high one
PreemptionInit == CallOf(MainTaskIds, {1, 4}, {5, 200}, {2}, {2, 3})

\* calls with long tasks and a team of four, up to four on a task
LongTaskInit == Call({1, LongEffort}, {LongTaskCapacity}, {LongTaskEngineers})

(***************************************************************************)
(* Resource allocation (the map over tasks at the top of                   *)
(* calculateSchedule).                                                     *)
(***************************************************************************)
\* mutant of MediumTaskEngineers: without the floor of 1
MediumTaskEngineersUnfloored(m) == (3 * m) \div 4

\* Math.floor(maxEngineersPerTask * 0.75), at least 1
MediumTaskEngineers(m) == Max(1, (3 * m) \div 4)

\* mutant of AssignedResources: low priority tasks fall into the medium tier
AssignedResourcesWithoutLowTier(priority, m, cap) ==
  IF priority <= HighPriorityLimit THEN Min(m, cap) ELSE Min(MediumTaskEngineers(m), cap)

AssignedResources(priority, m, cap) ==
  IF priority <= HighPriorityLimit THEN Min(m, cap)
  ELSE IF priority <= MediumPriorityLimit THEN Min(MediumTaskEngineers(m), cap)
  ELSE 1

\* Math.max(1, Math.ceil(effort / (resources * 0.9))): effort * 10 / (resources * 9)
EffortAtHighEfficiency(effort, resources) == Max(1, CeilDiv(10 * effort, 9 * resources))

\* effort / (resources * 0.85) is a quotient of IEEE-754 doubles.  3 * 0.85
\* and 6 * 0.85 are the doubles just below 2.55 and 5.1, and 153 divided by
\* them is 60.00000000000001 and 30.000000000000004, which Math.ceil takes
\* to 61 and 31.  For effort <= 305 and resources <= 10 these are the only
\* pairs where the doubles leave the exact quotient above an integer it
\* equals; with 0.9 there is no such pair.
DoubleRoundsUp(effort, resources) == effort = 153 /\ resources \in {3, 6}

\* Math.max(1, Math.ceil(effort / (resources * 0.85))): effort * 20 / (resources * 17)
EffortAtMediumEfficiency(effort, resources) ==
  Max(1, CeilDiv(20 * effort, 17 * resources)
         + (IF DoubleRoundsUp(effort, resources) THEN 1 ELSE 0))

AdjustedEffort(effort, priority, resources) ==
  IF priority <= HighPriorityLimit /\ resources > 1
    THEN EffortAtHighEfficiency(effort, resources)
  ELSE IF priority > HighPriorityLimit /\ priority <= MediumPriorityLimit /\ resources > 1
    THEN EffortAtMediumEfficiency(effort, resources)
  ELSE effort

\* mutant of ScheduleTaskOf: originalEffort is read after effort was overwritten
ScheduleTaskOfAdjustedOriginal(task, m, cap) ==
  LET r == AssignedResources(task.priority, m, cap) IN
  [task EXCEPT !.assignedResources = r,
               !.effort = AdjustedEffort(task.effort, task.priority, r),
               !.originalEffort = AdjustedEffort(task.effort, task.priority, r)]

\* the object literal returned by the map callback
ScheduleTaskOf(task, m, cap) ==
  LET r == AssignedResources(task.priority, m, cap) IN
  [task EXCEPT !.assignedResources = r,
               !.effort = AdjustedEffort(task.effort, task.priority, r),
               !.originalEffort = task.effort]

\* the working copy of task id i
ST(i) == heap[WorkRef(i)]

Allocate ==
  /\ pc = "allocate"
  /\ heap' = [r \in DOMAIN heap \cup {WorkRef(i) : i \in TaskIds} |->
                IF \E i \in TaskIds : r = WorkRef(i)
                  THEN LET i == CHOOSE j \in TaskIds : r = WorkRef(j) IN
                       ScheduleTaskOf(heap[tasks[i]], maxEngineersPerTask, teamCapacity)
                  ELSE heap[r]]
  /\ pc' = "sort"
  /\ UNCHANGED <<calls, previous, tasks, given, teamCapacity, maxEngineersPerTask, engine,
                 topoSortedTasks, sortedTasks, cursor, startWeek, resourcesUsedByWeek,
                 resourceTimeline, eventIndex, availableResources, runningTasks, result>>

(***************************************************************************)
(* topologicalSort: depth-first traversal with three colours.              *)
(* A traversal state is [visited, result, ok]; ok = FALSE is visit()       *)
(* returning false.                                                        *)
(***************************************************************************)
Unvisited == 0
InProgress == 1
Visited == 2

RECURSIVE visit(_, _), visitDependencies(_, _, _)

\* mutant of visit: a task in progress is taken for a visited one
visitIgnoringInProgress(t, taskId) ==
  IF taskId \in DOMAIN t.visited /\ t.visited[taskId] # Unvisited THEN t
  ELSE IF taskId \notin TaskIds THEN t
  ELSE LET entered == [t EXCEPT !.visited[taskId] = InProgress]
           after == visitDependencies(entered, ST(taskId).dependencies, 1)
       IN [after EXCEPT !.visited[taskId] = Visited, !.result = Append(@, taskId)]

\* mutant of visit: an id that matches no task is reported as a cycle
visitMissingAsCycle(t, taskId) ==
  IF taskId \in DOMAIN t.visited /\ t.visited[taskId] = Visited THEN t
  ELSE IF taskId \in DOMAIN t.visited /\ t.visited[taskId] = InProgress
    THEN [t EXCEPT !.ok = FALSE]
  ELSE IF taskId \notin TaskIds THEN [t EXCEPT !.ok = FALSE]
  ELSE LET entered == [t EXCEPT !.visited[taskId] = InProgress]
           after == visitDependencies(entered, ST(taskId).dependencies, 1)
       IN IF ~after.ok THEN after
          ELSE [after EXCEPT !.visited[taskId] = Visited,
                             !.result = Append(@, taskId)]

\* visit(taskId); taskMap holds exactly the working copies
visit(t, taskId) ==
  IF taskId \in DOMAIN t.visited /\ t.visited[taskId] = Visited THEN t
  ELSE IF taskId \in DOMAIN t.visited /\ t.visited[taskId] = InProgress
    THEN [t EXCEPT !.ok = FALSE]
  ELSE IF taskId \notin TaskIds THEN t
  ELSE LET entered == [t EXCEPT !.visited[taskId] = InProgress]
           after == visitDependencies(entered, ST(taskId).dependencies, 1)
       IN IF ~after.ok THEN after
          ELSE [after EXCEPT !.visited[taskId] = Visited,
                             !.result = Append(@, taskId)]

\* mutant of visitDependencies: only the first dependency is visited
visitFirstDependencyOnly(t, deps, n) ==
  IF n > Len(deps) \/ n > 1 THEN t ELSE visit(t, deps[n])

\* the for loop over task.dependencies inside visit
visitDependencies(t, deps, n) ==
  IF n > Len(deps) THEN t
  ELSE LET after == visit(t, deps[n]) IN
       IF ~after.ok THEN after ELSE visitDependencies(after, deps, n + 1)

RECURSIVE visitAll(_, _)
\* the for loop over tasks at the end of topologicalSort
visitAll(t, n) ==
  IF n > NumTasks THEN t
  ELSE LET after == visit(t, heap[tasks[n]].id) IN
       IF ~after.ok THEN after ELSE visitAll(after, n + 1)

\* [ok |-> FALSE] is the null the code returns for a cycle
topologicalSort ==
  visitAll([visited |-> [i \in TaskIds |-> Unvisited], result |-> <<>>, ok |-> TRUE], 1)

(***************************************************************************)
(* Array.prototype.sort.  Both comparators of the scheduler are            *)
(* inconsistent (the task comparator is not transitive, the timeline       *)
(* comparator answers -1 both ways for two 'end' events of one week), so   *)
(* the resulting order is the one the engine's algorithm happens to        *)
(* produce.  Two algorithms are modelled: V8's TimSort, which for arrays   *)
(* shorter than 64 is one run detection followed by binary insertion, and  *)
(* the straight insertion sort of older V8 for arrays of at most 10        *)
(* elements.  A comparator is passed as the function c[x, y].              *)
(***************************************************************************)
Reverse(a) == [x \in 1..Len(a) |-> a[Len(a) + 1 - x]]

\* a with the element at index from moved to index to (to <= from)
MoveLeft(a, from, to) ==
  [x \in 1..Len(a) |->
     IF x < to \/ x > from THEN a[x] ELSE IF x = to THEN a[from] ELSE a[x - 1]]

RECURSIVE CountRun(_, _, _, _)
\* length of the initial run, after its first two elements
CountRun(a, c, isDescending, idx) ==
  IF idx > Len(a) THEN Len(a)
  ELSE LET order == c[a[idx], a[idx - 1]] IN
       IF (isDescending /\ order >= 0) \/ (~isDescending /\ order < 0)
         THEN idx - 1
         ELSE CountRun(a, c, isDescending, idx + 1)

RECURSIVE BinarySearch(_, _, _, _, _)
BinarySearch(a, c, pivot, left, right) ==
  IF left >= right THEN left
  ELSE LET mid == left + ((right - left) \div 2) IN
       IF c[pivot, a[mid]] < 0
         THEN BinarySearch(a, c, pivot, left, mid)
         ELSE BinarySearch(a, c, pivot, mid + 1, right)

RECURSIVE BinaryInsertionSort(_, _, _)
BinaryInsertionSort(a, c, start) ==
  IF start > Len(a) THEN a
  ELSE BinaryInsertionSort(
         MoveLeft(a, start, BinarySearch(a, c, a[start], 1, start)), c, start + 1)

TimSort(a, c) ==
  IF Len(a) < 2 THEN a
  ELSE LET isDescending == c[a[2], a[1]] < 0
           runLength == CountRun(a, c, isDescending, 3)
           withRun == IF isDescending
                        THEN Reverse(SubSeq(a, 1, runLength)) \o SubSeq(a, runLength + 1, Len(a))
                        ELSE a
       IN BinaryInsertionSort(withRun, c, runLength + 1)

RECURSIVE ScanLeft(_, _, _, _)
\* where the element lands: left of every a[j] with c[a[j], element] > 0
ScanLeft(a, c, element, j) ==
  IF j < 1 THEN 1
  ELSE IF c[a[j], element] > 0 THEN ScanLeft(a, c, element, j - 1)
  ELSE j + 1

RECURSIVE InsertionSort(_, _, _)
InsertionSort(a, c, i) ==
  IF i > Len(a) THEN a
  ELSE InsertionSort(MoveLeft(a, i, ScanLeft(a, c, a[i], i - 1)), c, i + 1)

ArraySort(e, a, c) ==
  IF e = "timsort" THEN TimSort(a, c) ELSE InsertionSort(a, c, 2)

\* the engines the run so far is consistent with
EngineChoices == IF engine = "undetermined" THEN Engines ELSE {engine}

\* the engine after a sort of a with comparator c whose outcome was that of e
EngineAfter(e, a, c) ==
  IF \A e2 \in EngineChoices : ArraySort(e2, a, c) = ArraySort(e, a, c) THEN engine ELSE e

\* the comparator of sortedTasks, on task ids
CompareTasks(a, b) ==
  IF b \in SeqToSet(ST(a).dependencies) THEN 1
  ELSE IF a \in SeqToSet(ST(b).dependencies) THEN -1
  ELSE ST(a).priority - ST(b).priority

\* [...topoSortedTasks].sort(comparator)
TaskComparator == [x \in TaskIds, y \in TaskIds |-> CompareTasks(x, y)]

(***************************************************************************)
(* The earliest week after the dependencies of a task, as the placement    *)
(* loop computes it: dependencies missing from taskMap are skipped.        *)
(***************************************************************************)
RECURSIVE MaxOver(_)
MaxOver(S) == IF S = {} THEN 0 ELSE LET x == CHOOSE y \in S : TRUE IN Max(x, MaxOver(S \ {x}))

\* mutant of EarliestWeek: the effort of the dependency is left out
EarliestWeekOfStarts(h, i) ==
  MaxOver({h[WorkRef(d)].startWeek :
             d \in SeqToSet(h[WorkRef(i)].dependencies) \cap TaskIds})

\* earliestWeek: the latest end of a present dependency, 0 without one
EarliestWeek(h, i) ==
  MaxOver({h[WorkRef(d)].startWeek + h[WorkRef(d)].effort :
             d \in SeqToSet(h[WorkRef(i)].dependencies) \cap TaskIds})

\* topologicalSort found a cycle: return tasks
ReturnOnCycle ==
  /\ pc = "sort"
  /\ ~topologicalSort.ok
  /\ result' = [kind |-> "tasks", value |-> tasks]
  /\ pc' = "done"
  /\ UNCHANGED <<calls, previous, heap, tasks, given, teamCapacity, maxEngineersPerTask, engine,
                 topoSortedTasks, sortedTasks, cursor, startWeek, resourcesUsedByWeek,
                 resourceTimeline, eventIndex, availableResources, runningTasks>>

\* topological sort, the priority sort, and the entry into the placement loop
SortTasks ==
  /\ pc = "sort"
  /\ topologicalSort.ok
  /\ topoSortedTasks' = topologicalSort.result
  /\ \E e \in EngineChoices :
        /\ sortedTasks' = ArraySort(e, topologicalSort.result, TaskComparator)
        /\ engine' = EngineAfter(e, topologicalSort.result, TaskComparator)
  /\ cursor' = 1
  /\ startWeek' = EarliestWeek(heap, sortedTasks'[1])
  /\ resourcesUsedByWeek' = <<>>
  /\ pc' = "scan"
  /\ UNCHANGED <<calls, previous, heap, tasks, given, teamCapacity, maxEngineersPerTask,
                 resourceTimeline, eventIndex, availableResources, runningTasks, result>>

(***************************************************************************)
(* Loops over a range of weeks of a usage array.                           *)
(***************************************************************************)
\* if (arr.length <= week) arr.push(0)
PushIfShort(arr, week) == IF Len(arr) <= week THEN Append(arr, Num(0)) ELSE arr

\* The loops run their iterations for week, week + 1, ..., end - 1 in this
\* order; a range of more than one week is the weeks before its middle
\* followed by the weeks from its middle on.  Len(before) >= 0 holds of
\* every array: the test has the first half evaluated before the second is
\* entered, so that the depth of the evaluation stays logarithmic.
Middle(week, end) == (week + end) \div 2

RECURSIVE ScanWindow(_, _, _, _, _)
\* the for loop of the capacity check: the array after its pushes, and
\* whether some week did not fit (the loop breaks at the first such week)
ScanWindow(arr, week, end, resources, cap) ==
  IF week >= end THEN [arr |-> arr, blocked |-> FALSE]
  ELSE IF end = week + 1
    THEN LET a == PushIfShort(arr, week) IN
         [arr |-> a, blocked |-> JsGreater(JsAdd(ArrayGet(a, week), resources), cap)]
  ELSE LET before == ScanWindow(arr, week, Middle(week, end), resources, cap) IN
       IF before.blocked THEN before
       ELSE ScanWindow(before.arr, Middle(week, end), end, resources, cap)

RECURSIVE AddRange(_, _, _, _)
\* for each week: push 0 if the array is short, then arr[week] += resources
AddRange(arr, week, end, resources) ==
  IF week >= end THEN arr
  ELSE IF end = week + 1
    THEN LET a == PushIfShort(arr, week) IN
         ArraySet(a, week, JsAdd(ArrayGet(a, week), resources))
  ELSE LET before == AddRange(arr, week, Middle(week, end), resources) IN
       IF Len(before) >= 0 THEN AddRange(before, Middle(week, end), end, resources) ELSE before

RECURSIVE SubtractRange(_, _, _, _)
\* for each week: arr[week] -= resources
SubtractRange(arr, week, end, resources) ==
  IF week >= end THEN arr
  ELSE IF end = week + 1
    THEN ArraySet(arr, week, JsSub(ArrayGet(arr, week), resources))
  ELSE LET before == SubtractRange(arr, week, Middle(week, end), resources) IN
       IF Len(before) >= 0 THEN SubtractRange(before, Middle(week, end), end, resources) ELSE before

RECURSIVE SubtractWhereTruthy(_, _, _, _)
\* for each week: if (arr[week]) arr[week] -= resources
SubtractWhereTruthy(arr, week, end, resources) ==
  IF week >= end THEN arr
  ELSE IF end = week + 1
    THEN IF Truthy(ArrayGet(arr, week))
           THEN ArraySet(arr, week, JsSub(ArrayGet(arr, week), resources))
           ELSE arr
  ELSE LET before == SubtractWhereTruthy(arr, week, Middle(week, end), resources) IN
       IF Len(before) >= 0 THEN SubtractWhereTruthy(before, Middle(week, end), end, resources) ELSE before

(***************************************************************************)
(* tryRescheduleLowerPriorityTasks(highPriorityTask, week, allTasks,       *)
(* resourcesUsedByWeek, teamCapacity), h the id of highPriorityTask.       *)
(***************************************************************************)
\* the filter of conflictingTasks; startWeek is a number for every task, as
\* the working copies inherit the caller's startWeek
IsConflicting(h, week, t) ==
  /\ ST(t).id # ST(h).id
  /\ ~(ST(t).priority <= ST(h).priority)
  /\ ST(t).startWeek < week + ST(h).effort
  /\ ST(t).startWeek + ST(t).effort > week

ConflictingTasks(h, week) ==
  LET Test(t) == IsConflicting(h, week, t) IN SelectSeq(sortedTasks, Test)

\* the new start week of a displaced task
NewStartWeek(h, week) == week + ST(h).effort

\* the speculative check on the copy of the accumulator
CanReschedule(h, week, t, arr, cap) ==
  LET tempResources ==
        SubtractWhereTruthy(arr, ST(t).startWeek, ST(t).startWeek + ST(t).effort,
                            ST(t).assignedResources)
  IN ~ScanWindow(tempResources, NewStartWeek(h, week),
                 NewStartWeek(h, week) + ST(t).effort,
                 ST(t).assignedResources, cap).blocked

\* the task to displace: the first conflicting one that frees enough and fits
DisplacementCandidates(h, week, arr, cap) ==
  LET Test(t) == /\ ST(t).assignedResources >= ST(h).assignedResources
                 /\ CanReschedule(h, week, t, arr, cap)
  IN SelectSeq(ConflictingTasks(h, week), Test)

\* the accumulator after the displacement of t is committed
DisplacedUsage(h, week, t, arr) ==
  AddRange(SubtractRange(arr, ST(t).startWeek, ST(t).startWeek + ST(t).effort,
                         ST(t).assignedResources),
           NewStartWeek(h, week), NewStartWeek(h, week) + ST(t).effort,
           ST(t).assignedResources)

\* priority <= 10: the task may preempt
MayPreempt(i) == ST(i).priority <= HighPriorityLimit

(***************************************************************************)
(* One iteration of while (!canSchedule) for the task sortedTasks[cursor]. *)
(***************************************************************************)
CurrentTask == sortedTasks[cursor]

\* the for loop over the window of the candidate week
CurrentScan ==
  ScanWindow(resourcesUsedByWeek, startWeek, startWeek + ST(CurrentTask).effort,
             ST(CurrentTask).assignedResources, teamCapacity)

\* the tasks tryRescheduleLowerPriorityTasks could move, if it is called
CurrentCandidates ==
  IF CurrentScan.blocked /\ MayPreempt(CurrentTask)
    THEN DisplacementCandidates(CurrentTask, startWeek, CurrentScan.arr, teamCapacity)
    ELSE <<>>

ScanWeek ==
  /\ pc = "scan"
  /\ LET i == CurrentTask
         scan == CurrentScan
         candidates == CurrentCandidates
     IN IF ~scan.blocked
          THEN \* the window fits: leave the loop
               /\ resourcesUsedByWeek' = scan.arr
               /\ pc' = "commit"
               /\ UNCHANGED <<heap, startWeek>>
        ELSE IF candidates # <<>>
          THEN \* a lower priority task was moved: canSchedule = true; break
               /\ resourcesUsedByWeek' = DisplacedUsage(i, startWeek, candidates[1], scan.arr)
               /\ heap' = [heap EXCEPT ![WorkRef(candidates[1])].startWeek =
                                          NewStartWeek(i, startWeek)]
               /\ pc' = "commit"
               /\ UNCHANGED startWeek
        ELSE \* startWeek++
               /\ startWeek < MaxWeek
               /\ resourcesUsedByWeek' = scan.arr
               /\ startWeek' = startWeek + 1
               /\ UNCHANGED <<heap, pc>>
  /\ UNCHANGED <<calls, previous, tasks, given, teamCapacity, maxEngineersPerTask, engine,
                 topoSortedTasks, sortedTasks, cursor,
                 resourceTimeline, eventIndex, availableResources, runningTasks, result>>

(***************************************************************************)
(* After the while loop: record the start week, add the task to the        *)
(* accumulator, and go on to the next task of sortedTasks.                 *)
(***************************************************************************)
CommitPlacement ==
  /\ pc = "commit"
  /\ LET i == CurrentTask IN
     /\ heap' = [heap EXCEPT ![WorkRef(i)].startWeek = startWeek]
     /\ resourcesUsedByWeek' =
          AddRange(resourcesUsedByWeek, startWeek, startWeek + ST(i).effort,
                   ST(i).assignedResources)
  /\ IF cursor < Len(sortedTasks)
       THEN /\ cursor' = cursor + 1
            /\ startWeek' = EarliestWeek(heap', sortedTasks[cursor + 1])
            /\ pc' = "scan"
       ELSE /\ pc' = "build"
            /\ UNCHANGED <<cursor, startWeek>>
  /\ UNCHANGED <<calls, previous, tasks, given, teamCapacity, maxEngineersPerTask, engine,
                 topoSortedTasks, sortedTasks,
                 resourceTimeline, eventIndex, availableResources, runningTasks, result>>

(***************************************************************************)
(* The timeline of the second pass.  An event is                           *)
(* [week, task, resources, action]; task is the id of the working copy.    *)
(***************************************************************************)
StartEvent(i) ==
  [week |-> ST(i).startWeek, task |-> i,
   resources |-> ST(i).assignedResources, action |-> "start"]

EndEvent(i) ==
  [week |-> ST(i).startWeek + ST(i).effort, task |-> i,
   resources |-> ST(i).assignedResources, action |-> "end"]

RECURSIVE TimelineOf(_)
\* the start and the end event of every task, in the order of sortedTasks
TimelineOf(order) ==
  IF order = <<>> THEN <<>>
  ELSE <<StartEvent(Head(order)), EndEvent(Head(order))>> \o TimelineOf(Tail(order))

\* the comparator of both timeline sorts
CompareEvents(a, b) ==
  IF a.week = b.week THEN (IF a.action = "end" THEN -1 ELSE 1) ELSE a.week - b.week

EventComparator(timeline) ==
  [x \in SeqToSet(timeline), y \in SeqToSet(timeline) |-> CompareEvents(x, y)]

BuildTimeline ==
  /\ pc = "build"
  /\ LET timeline == TimelineOf(sortedTasks) IN
     \E e \in EngineChoices :
        /\ resourceTimeline' = ArraySort(e, timeline, EventComparator(timeline))
        /\ engine' = EngineAfter(e, timeline, EventComparator(timeline))
  /\ eventIndex' = 1
  /\ availableResources' = teamCapacity
  /\ runningTasks' = {}
  /\ pc' = "timeline"
  /\ UNCHANGED <<calls, previous, heap, tasks, given, teamCapacity, maxEngineersPerTask,
                 topoSortedTasks, sortedTasks, cursor, startWeek, resourcesUsedByWeek,
                 result>>

(***************************************************************************)
(* The optimizer, run at an 'end' event.                                   *)
(***************************************************************************)
\* mutant of IsWaiting: the optimized flag is not looked at
IsWaitingAlsoOptimized(t, currentWeek, running) ==
  /\ t \notin running
  /\ currentWeek >= EarliestWeek(heap, t)
  /\ ST(t).startWeek >= currentWeek

\* the filter of waitingTasks, with the running set after the delete
IsWaiting(t, currentWeek, running) ==
  /\ t \notin running
  /\ currentWeek >= EarliestWeek(heap, t)
  /\ ST(t).startWeek >= currentWeek
  /\ ~ST(t).optimized

WaitingTasks(currentWeek, running) ==
  LET Test(t) == IsWaiting(t, currentWeek, running) IN SelectSeq(sortedTasks, Test)

PriorityComparator == [x \in TaskIds, y \in TaskIds |-> ST(x).priority - ST(y).priority]

\* mutant of MaxResourcesForPriority: every tier may have maxEngineersPerTask
MaxResourcesForAnyPriority(priority, m) == m

MaxResourcesForPriority(priority, m) ==
  IF priority <= HighPriorityLimit THEN m ELSE MediumTaskEngineers(m)

\* mutant of NewResources: the tier maximum is not applied
NewResourcesUncapped(t, available) == ST(t).assignedResources + available

\* Math.min(originalResources + availableResources, maxResources)
NewResources(t, available) ==
  Min(ST(t).assignedResources + available,
      Min(MaxResourcesForPriority(ST(t).priority, maxEngineersPerTask), teamCapacity))

\* Math.max(1, Math.ceil(originalEffort / (newResources * efficiency)))
NewEffort(t, newResources) ==
  IF ST(t).priority <= HighPriorityLimit
    THEN EffortAtHighEfficiency(ST(t).originalEffort, newResources)
    ELSE EffortAtMediumEfficiency(ST(t).originalEffort, newResources)

RECURSIVE FindEndEvent(_, _, _)
\* the first index j >= from of an 'end' event of task t, 0 if there is none
FindEndEvent(timeline, t, from) ==
  IF from > Len(timeline) THEN 0
  ELSE IF timeline[from].task = t /\ timeline[from].action = "end" THEN from
  ELSE FindEndEvent(timeline, t, from + 1)

\* the timeline with the end event of t rewritten, before the re-sort
UpdatedTimeline(timeline, t, from, currentWeek, newEffort, newResources) ==
  LET j == FindEndEvent(timeline, t, from) IN
  IF j = 0 THEN timeline
  ELSE [timeline EXCEPT ![j].week = currentWeek + newEffort,
                        ![j].resources = newResources]

\* if (availableResources < 0) availableResources = 0
Clamp(available) == IF available < 0 THEN 0 ELSE available

(***************************************************************************)
(* One iteration of the traversal of resourceTimeline.                     *)
(***************************************************************************)
TimelineEvent ==
  /\ pc = "timeline"
  /\ eventIndex <= Len(resourceTimeline)
  /\ LET event == resourceTimeline[eventIndex]
         currentWeek == event.week
     IN IF event.action = "end"
          THEN LET freed == availableResources + event.resources
                   running == runningTasks \ {event.task}
               IN \E e \in EngineChoices :
                  LET waiting == ArraySort(e, WaitingTasks(currentWeek, running),
                                           PriorityComparator)
                      t == waiting[1]
                      newResources == NewResources(t, freed)
                      newEffort == NewEffort(t, newResources)
                      timeline == UpdatedTimeline(resourceTimeline, t, eventIndex + 1,
                                                  currentWeek, newEffort, newResources)
                  IN /\ runningTasks' = running
                     /\ IF waiting # <<>> /\ newResources > ST(t).assignedResources
                          THEN /\ heap' = [heap EXCEPT
                                             ![WorkRef(t)].assignedResources = newResources,
                                             ![WorkRef(t)].effort = newEffort,
                                             ![WorkRef(t)].optimized = TRUE]
                               /\ availableResources' =
                                    Clamp(freed - (newResources - ST(t).assignedResources))
                               /\ resourceTimeline' =
                                    ArraySort(e, timeline, EventComparator(timeline))
                               /\ engine' = EngineAfter(e, timeline, EventComparator(timeline))
                          ELSE /\ availableResources' = Clamp(freed)
                               /\ UNCHANGED <<heap, resourceTimeline, engine>>
          ELSE /\ availableResources' = Clamp(availableResources - event.resources)
               /\ runningTasks' = runningTasks \cup {event.task}
               /\ UNCHANGED <<heap, resourceTimeline, engine>>
  /\ eventIndex' = eventIndex + 1
  /\ UNCHANGED <<calls, previous, tasks, given, teamCapacity, maxEngineersPerTask, pc,
                 topoSortedTasks, sortedTasks, cursor, startWeek, resourcesUsedByWeek,
                 result>>

\* the traversal is over: return sortedTasks (the working copies)
ReturnSchedule ==
  /\ pc = "timeline"
  /\ eventIndex > Len(resourceTimeline)
  /\ result' = [kind |-> "tasks",
                value |-> [x \in 1..Len(sortedTasks) |-> WorkRef(sortedTasks[x])]]
  /\ pc' = "done"
  /\ UNCHANGED <<calls, previous, heap, tasks, given, teamCapacity, maxEngineersPerTask, engine,
                 topoSortedTasks, sortedTasks, cursor, startWeek, resourcesUsedByWeek,
                 resourceTimeline, eventIndex, availableResources, runningTasks>>

Next ==
  \/ Allocate
  \/ ReturnOnCycle
  \/ SortTasks
  \/ ScanWeek
  \/ CommitPlacement
  \/ BuildTimeline
  \/ TimelineEvent
  \/ ReturnSchedule

Spec == Init /\ [][Next]_vars

(***************************************************************************)
(* The call repeated on its own output: the records of the next call are   *)
(* those of this one with every task's startWeek replaced by the startWeek *)
(* of the returned task of its id (the value generateScheduleMutation      *)
(* sends in its PATCH request); effort, priority and dependencies are the  *)
(* caller's.                                                               *)
(***************************************************************************)
\* the startWeek sent in the PATCH request of task i
PatchedStartWeek(i) ==
  LET x == CHOOSE y \in 1..Len(result.value) : heap[result.value[y]].id = i
  IN heap[result.value[x]].startWeek

GenerateAgain ==
  /\ pc = "done"
  /\ calls < MaxCalls
  /\ given' = [i \in TaskIds |-> [given[i] EXCEPT !.startWeek = PatchedStartWeek(i)]]
  /\ heap' = [r \in {InputRef(i) : i \in TaskIds} |->
                given'[CHOOSE i \in TaskIds : InputRef(i) = r]]
  /\ calls' = calls + 1
  /\ UNCHANGED previous
  /\ pc' = "allocate"
  /\ topoSortedTasks' = <<>>
  /\ sortedTasks' = <<>>
  /\ cursor' = 0
  /\ startWeek' = 0
  /\ resourcesUsedByWeek' = <<>>
  /\ resourceTimeline' = <<>>
  /\ eventIndex' = 0
  /\ availableResources' = 0
  /\ runningTasks' = {}
  /\ result' = [kind |-> "none", value |-> <<>>]
  /\ UNCHANGED <<tasks, teamCapacity, maxEngineersPerTask, engine>>

RegenerateNext == Next \/ GenerateAgain

RegenerateSpec == Init /\ [][RegenerateNext]_vars

(***************************************************************************)
(* Calls whose tasks name a task that is not in the list (a deleted one),  *)
(* each followed by the call with the same records without these ids.      *)
(***************************************************************************)
\* the id of the deleted task
MissingTaskId == 4

\* dependency arrays over the tasks of the list and the deleted one, the
\* deleted one named by some task
DanglingDependencyChoices ==
  LET ids == MainTaskIds \cup {MissingTaskId} IN
  {f \in [MainTaskIds -> AllDepLists(ids)] :
     /\ \A i \in MainTaskIds : f[i] \in DepLists(ids, i)
     /\ \E i \in MainTaskIds : MissingTaskId \in SeqToSet(f[i])}

DanglingInit ==
  /\ \E d \in DanglingDependencyChoices :
       \/ /\ ~HasCycle(d)
          /\ \E e \in [MainTaskIds -> {1, 3}], p \in [MainTaskIds -> {5, 200}] :
               given = [i \in MainTaskIds |-> InputTask(i, e[i], p[i], d[i], 0)]
       \/ /\ HasCycle(d)
          /\ given = [i \in MainTaskIds |-> InputTask(i, 1, 100, d[i], 0)]
  /\ Called({2}, {2})

\* the record without the ids that match no task
WithoutMissing(task) ==
  [task EXCEPT !.dependencies = SelectSeq(@, LAMBDA d : d \in TaskIds)]

CallWithoutMissing ==
  /\ pc = "done"
  /\ calls < MaxCalls
  /\ previous' = [x \in 1..Len(result.value) |-> heap[result.value[x]]]
  /\ given' = [i \in TaskIds |-> WithoutMissing(given[i])]
  /\ heap' = [r \in {InputRef(i) : i \in TaskIds} |->
                given'[CHOOSE i \in TaskIds : InputRef(i) = r]]
  /\ calls' = calls + 1
  /\ pc' = "allocate"
  /\ topoSortedTasks' = <<>>
  /\ sortedTasks' = <<>>
  /\ cursor' = 0
  /\ startWeek' = 0
  /\ resourcesUsedByWeek' = <<>>
  /\ resourceTimeline' = <<>>
  /\ eventIndex' = 0
  /\ availableResources' = 0
  /\ runningTasks' = {}
  /\ result' = [kind |-> "none", value |-> <<>>]
  /\ UNCHANGED <<tasks, teamCapacity, maxEngineersPerTask, engine>>

DanglingNext == Next \/ CallWithoutMissing

DanglingSpec == DanglingInit /\ [][DanglingNext]_vars

(***************************************************************************)
(* generateScheduleMutation after the call: one request                    *)
(* PATCH /api/tasks/:id with the body { startWeek } for every returned     *)
(* task; the route validates the body and hands it to storage.updateTask.  *)
(* given holds the stored tasks, as the client fetched them.               *)
(***************************************************************************)
\* the keys of insertTaskSchema
InsertTaskKeys == {"name", "effort", "dependencies", "priority"}

\* the body of the request for task i
PatchBody(i) == [startWeek |-> PatchedStartWeek(i)]

\* insertTaskSchema.partial().parse(body): every key is optional, and a key
\* the schema does not have is stripped from the result
ValidatedUpdates(body) == [k \in DOMAIN body \cap InsertTaskKeys |-> body[k]]

\* storage.updateTask: the row with the columns of updates written
UpdatedTask(existingTask, updates) ==
  [k \in DOMAIN existingTask |->
     IF k = "dependencies"
       THEN IF "dependencies" \in DOMAIN updates
              THEN updates["dependencies"] ELSE existingTask.dependencies
     ELSE IF k \in DOMAIN updates THEN updates[k]
     ELSE existingTask[k]]

PersistSchedule ==
  /\ pc = "done"
  /\ given' = [i \in TaskIds |->
                 UpdatedTask(given[i], ValidatedUpdates(PatchBody(i)))]
  /\ pc' = "persisted"
  /\ UNCHANGED <<calls, previous, heap, tasks, teamCapacity, maxEngineersPerTask,
                 engine, topoSortedTasks, sortedTasks, cursor, startWeek,
                 resourcesUsedByWeek, resourceTimeline, eventIndex,
                 availableResources, runningTasks, result>>

PersistNext == Next \/ PersistSchedule

PersistSpec == PackingInit /\ [][PersistNext]_vars


LongTaskSpec == LongTaskInit /\ [][Next]_vars

PackingSpec == PackingInit /\ [][Next]_vars

PreemptionSpec == PreemptionInit /\ [][Next]_vars

(***************************************************************************)
(* wouldCreateCycle(taskId, newDependencyId, allTasks): the check made     *)
(* before a dependency is added to a task of the stored list.              *)
(***************************************************************************)
\* dependencyMap.get(id) || []
DependenciesIn(dependencyMap, id) ==
  IF id \in DOMAIN dependencyMap THEN dependencyMap[id] ELSE <<>>

\* the map built from allTasks, the new dependency appended to taskId's array
DependencyMapOf(allTasks, taskId, newDependencyId) ==
  LET built == [i \in DOMAIN allTasks |-> allTasks[i].dependencies]
  IN [i \in DOMAIN built \cup {taskId} |->
        IF i = taskId THEN Append(DependenciesIn(built, i), newDependencyId)
        ELSE built[i]]

RECURSIVE hasCycle(_, _, _, _), hasCycleDependencies(_, _, _, _, _)

\* mutant of hasCycle: a visited task is taken for one on the path
hasCycleOnRevisit(dependencyMap, c, currentId, path) ==
  IF currentId \in path \/ currentId \in c.visited THEN [c EXCEPT !.found = TRUE]
  ELSE hasCycleDependencies(dependencyMap,
                            [c EXCEPT !.visited = @ \cup {currentId}],
                            DependenciesIn(dependencyMap, currentId), 1,
                            path \cup {currentId})

\* hasCycle(currentId, path); c holds the set visited, shared by all calls,
\* and the value returned; path is the copy the caller made
hasCycle(dependencyMap, c, currentId, path) ==
  IF currentId \in path THEN [c EXCEPT !.found = TRUE]
  ELSE IF currentId \in c.visited THEN c
  ELSE hasCycleDependencies(dependencyMap,
                            [c EXCEPT !.visited = @ \cup {currentId}],
                            DependenciesIn(dependencyMap, currentId), 1,
                            path \cup {currentId})

\* the for loop over dependencies inside hasCycle
hasCycleDependencies(dependencyMap, c, deps, n, path) ==
  IF n > Len(deps) THEN c
  ELSE LET after == hasCycle(dependencyMap, c, deps[n], path) IN
       IF after.found THEN after
       ELSE hasCycleDependencies(dependencyMap, after, deps, n + 1, path)

wouldCreateCycle(taskId, newDependencyId, allTasks) ==
  IF taskId = newDependencyId THEN TRUE
  ELSE hasCycle(DependencyMapOf(allTasks, taskId, newDependencyId),
                [visited |-> {}, found |-> FALSE], newDependencyId, {}).found

\* the stored list: four tasks, acyclic as every dependency was checked
\* before it was added; the ids asked about: theirs and one more
CycleCheckTaskIds == {1, 2, 3, 4}
CheckedIds == CycleCheckTaskIds \cup {5}

CycleCheckInit ==
  /\ \E d \in AcyclicDependencyChoices(CycleCheckTaskIds) :
       given = [i \in CycleCheckTaskIds |-> InputTask(i, 1, 100, d[i], 0)]
  /\ Called({1}, {1})

CheckDependency ==
  /\ pc = "allocate"
  /\ \E taskId, newDependencyId \in CheckedIds :
       result' = [kind |-> "wouldCreateCycle",
                  taskId |-> taskId, newDependencyId |-> newDependencyId,
                  value |-> wouldCreateCycle(taskId, newDependencyId, given)]
  /\ pc' = "checked"
  /\ UNCHANGED <<calls, previous, heap, tasks, given, teamCapacity, maxEngineersPerTask,
                 engine, topoSortedTasks, sortedTasks, cursor, startWeek,
                 resourcesUsedByWeek, resourceTimeline, eventIndex,
                 availableResources, runningTasks>>

CycleCheckSpec == CycleCheckInit /\ [][CheckDependency]_vars

(***************************************************************************)
(* Vocabulary of the properties.                                           *)
(***************************************************************************)
Acyclic == ~HasCycle(GivenDependencies)

\* the call has returned a schedule
Scheduled == pc = "done" /\ Acyclic

\* the working copies exist
Allocated == pc # "allocate"

\* the present dependencies of task i
PresentDependencies(i) == SeqToSet(given[i].dependencies) \cap TaskIds

\* the tasks active in week w: startWeek <= w < startWeek + effort
ActiveAt(w) == {i \in TaskIds : ST(i).startWeek <= w /\ w < ST(i).startWeek + ST(i).effort}

RECURSIVE SumResources(_)
SumResources(S) ==
  IF S = {} THEN 0
  ELSE LET x == CHOOSE y \in S : TRUE IN ST(x).assignedResources + SumResources(S \ {x})

\* the first week after the end of every task
Horizon == MaxOver({ST(i).startWeek + ST(i).effort : i \in TaskIds})

\* the ids of the returned list, in its order
ReturnedIds == [x \in 1..Len(result.value) |-> heap[result.value[x]].id]

\* the resource count of the priority tier
TierResources(i) ==
  IF given[i].priority <= 10 THEN Min(maxEngineersPerTask, teamCapacity)
  ELSE IF given[i].priority <= 100
    THEN Min(Max(1, (3 * maxEngineersPerTask) \div 4), teamCapacity)
  ELSE 1

\* the optimizer accelerated some task
SomeTaskOptimized == \E i \in TaskIds : ST(i).optimized

(***************************************************************************)
(* C1.  Dependency ordering: in the returned schedule every dependency D   *)
(* of every task T that is present in the input ends before T starts,      *)
(* D.startWeek + D.effort <= T.startWeek.                                   *)
(***************************************************************************)
C1_DependencyOrdering ==
  Scheduled =>
    \A t \in TaskIds : \A d \in PresentDependencies(t) :
      ST(d).startWeek + ST(d).effort <= ST(t).startWeek

(***************************************************************************)
(* C2.  Capacity bound: in the returned schedule, for every week the sum   *)
(* of assignedResources over the tasks active in it is at most             *)
(* teamCapacity.                                                           *)
(***************************************************************************)
C2_CapacityBound ==
  Scheduled => \A w \in 0..Horizon : SumResources(ActiveAt(w)) <= teamCapacity

C4_TierOnly ==
  Scheduled => \A i \in TaskIds : ST(i).assignedResources = TierResources(i)

(***************************************************************************)
(* C4, amended.  In the returned schedule every task the Timeline          *)
(* Optimizer did not accelerate has the assignedResources of its priority  *)
(* tier; an accelerated task has priority > 100 and more than 1 and at     *)
(* most min(max(1, floor(0.75 * maxEngineersPerTask)), teamCapacity)       *)
(* engineers.                                                              *)
(***************************************************************************)
C4_TierUnlessOptimized ==
  Scheduled =>
    \A i \in TaskIds :
      IF ST(i).optimized
        THEN /\ given[i].priority > 100
             /\ ST(i).assignedResources > 1
             /\ ST(i).assignedResources <=
                  Min(Max(1, (3 * maxEngineersPerTask) \div 4), teamCapacity)
        ELSE ST(i).assignedResources = TierResources(i)

C4_Witness ==
  /\ Scheduled
  /\ \E i, j, k \in TaskIds :
       /\ ST(i).optimized
       /\ given[j].priority <= 10 /\ ST(j).assignedResources = 2
       /\ given[k].priority > 100 /\ ~ST(k).optimized

(***************************************************************************)
(* C5.  In the returned schedule of an acyclic input a task with one       *)
(* engineer keeps its input effort, and a task with r > 1 engineers has    *)
(* effort max(1, ceil(originalEffort / (r * e))), e = 0.9 for priority     *)
(* <= 10 and 0.85 above, that is ceil(10 E / (9 r)) and ceil(20 E / (17 r)) *)
(* in integers, whether or not the optimizer accelerated it.  The code     *)
(* computes the quotient in doubles: a medium task of effort 153 with      *)
(* three engineers comes out at 61 weeks, where the formula gives 60.      *)
(***************************************************************************)
ExactEffort(E, priority, r) ==
  IF r = 1 THEN E
  ELSE IF priority <= 10 THEN Max(1, CeilDiv(10 * E, 9 * r))
  ELSE Max(1, CeilDiv(20 * E, 17 * r))

C5_EffortFormula ==
  Scheduled =>
    \A i \in TaskIds :
      ST(i).effort = ExactEffort(ST(i).originalEffort, ST(i).priority, ST(i).assignedResources)

(***************************************************************************)
(* C6.  For an acyclic input the returned list has exactly one entry per   *)
(* input task, and every entry has startWeek >= 0, assignedResources >= 1, *)
(* effort >= 1 and originalEffort equal to the input effort.               *)
(***************************************************************************)
C6_OneEntryPerTask ==
  Scheduled =>
    /\ Len(result.value) = NumTasks
    /\ \A i \in TaskIds : \E x \in 1..Len(result.value) : ReturnedIds[x] = i
    /\ \A x \in 1..Len(result.value) :
         LET entry == heap[result.value[x]] IN
         /\ entry.startWeek >= 0
         /\ entry.assignedResources >= 1
         /\ entry.effort >= 1
         /\ entry.originalEffort = given[entry.id].effort

C6_Witness ==
  /\ Scheduled
  /\ ReturnedIds # <<1, 2, 3>>
  /\ \E i \in TaskIds : ST(i).effort < given[i].effort
  /\ \E i \in TaskIds : ST(i).startWeek > 0

(***************************************************************************)
(* C7.  From resource allocation on, the optimizer steps included, every   *)
(* ScheduleTask has assignedResources <= maxEngineersPerTask,              *)
(* assignedResources <= teamCapacity and effort <= originalEffort.         *)
(***************************************************************************)
C7_AllocationBounds ==
  Allocated =>
    \A i \in TaskIds :
      /\ ST(i).assignedResources <= maxEngineersPerTask
      /\ ST(i).assignedResources <= teamCapacity
      /\ ST(i).effort <= ST(i).originalEffort

C7_Witness ==
  /\ pc = "timeline"
  /\ \E i \in TaskIds : ST(i).optimized /\ ST(i).effort < ST(i).originalEffort
  /\ maxEngineersPerTask > teamCapacity

(***************************************************************************)
(* C8.  calculateSchedule never changes a field of a record of the caller: *)
(* at every point of the call, and after it for acyclic and cyclic inputs  *)
(* alike, every input record is as it was passed in.                       *)
(***************************************************************************)
C8_InputNotMutated ==
  \A i \in TaskIds : heap[InputRef(i)] = given[i]

C8_Witness ==
  /\ Scheduled
  /\ \E i \in TaskIds : ST(i).startWeek # given[i].startWeek
  /\ \E i \in TaskIds : ST(i).effort # given[i].effort
  /\ SomeTaskOptimized

(***************************************************************************)
(* C9.  topologicalSort returns null exactly when the dependency relation  *)
(* restricted to present tasks has a cycle; otherwise it returns every     *)
(* task exactly once, each after all of its present dependencies.          *)
(***************************************************************************)
\* the index of task i in the sequence order
PositionIn(order, i) == CHOOSE x \in 1..Len(order) : order[x] = i

C9_TopologicalSort ==
  pc = "sort" =>
    LET sorted == topologicalSort IN
    /\ ~sorted.ok <=> ~Acyclic
    /\ sorted.ok =>
         /\ Len(sorted.result) = NumTasks
         /\ SeqToSet(sorted.result) = TaskIds
         /\ \A t \in TaskIds : \A d \in PresentDependencies(t) :
              PositionIn(sorted.result, d) < PositionIn(sorted.result, t)

C9_Witness ==
  /\ pc = "sort"
  /\ topologicalSort.ok
  /\ topologicalSort.result = <<3, 2, 1>>
  /\ given[1].dependencies = <<3, 2>>

(***************************************************************************)
(* C10.  calculateSchedule terminates: every call returns, the placement   *)
(* search of every task ending after finitely many candidate weeks (also   *)
(* when only high priority tasks compete and each blocked week is a        *)
(* preemption attempt) and the timeline traversal ending.                  *)
(***************************************************************************)
\* A measure of the work left, ordered lexicographically: the statements of
\* the body still ahead, then the iterations the current loop can still make.
\* A blocked candidate week lies inside the usage array, and a blocked
\* iteration does not lengthen the array.
Rank ==
  CASE pc = "allocate" -> <<2 * NumTasks + 4, 0>>
    [] pc = "sort"     -> <<2 * NumTasks + 3, 0>>
    [] pc = "scan"     -> <<2 * (NumTasks - cursor) + 4,
                            Max(0, Len(resourcesUsedByWeek) - startWeek)>>
    [] pc = "commit"   -> <<2 * (NumTasks - cursor) + 3, 0>>
    [] pc = "build"    -> <<2, 0>>
    [] pc = "timeline" -> <<1, Len(resourceTimeline) + 1 - eventIndex>>
    [] OTHER           -> <<0, 0>>

LexLess(r, q) == r[1] < q[1] \/ (r[1] = q[1] /\ r[2] < q[2])

\* the search has run into the ceiling of the model with its window blocked
SearchAtCeiling ==
  /\ pc = "scan"
  /\ startWeek >= MaxWeek
  /\ CurrentScan.blocked
  /\ CurrentCandidates = <<>>

C10_Terminates == [][LexLess(Rank', Rank) /\ ~SearchAtCeiling']_vars

C10_Witness ==
  /\ Scheduled
  /\ \A i \in TaskIds : given[i].priority <= 10
  /\ \E i \in TaskIds : given[i].dependencies = <<>> /\ ST(i).startWeek >= 2 * MaxEffort

(***************************************************************************)
(* C11.  A task is accelerated by the optimizer at most once in a call:    *)
(* once its optimized flag is set the flag stays set and its               *)
(* assignedResources and effort are not changed again; and every step of   *)
(* the traversal that changes a task (and so re-sorts the timeline) sets   *)
(* the flag of exactly one task that did not have it, so there are at most *)
(* as many re-sorts as tasks.                                              *)
(***************************************************************************)
\* the tasks whose working copy differs between the two states of a step
ChangedTasks == {i \in TaskIds : ST(i)' # ST(i)}

C11_AcceleratedOnce ==
  [][(Allocated /\ pc' # "allocate") =>
       /\ \A i \in TaskIds :
            ST(i).optimized =>
              /\ ST(i)'.optimized
              /\ ST(i)'.assignedResources = ST(i).assignedResources
              /\ ST(i)'.effort = ST(i).effort
       /\ (pc = "timeline" /\ (resourceTimeline' # resourceTimeline \/ ChangedTasks # {})) =>
            \E i \in TaskIds :
              /\ ChangedTasks = {i}
              /\ ~ST(i).optimized /\ ST(i)'.optimized]_vars

C11_Witness ==
  /\ pc = "timeline"
  /\ eventIndex <= Len(resourceTimeline)
  /\ resourceTimeline[eventIndex].action = "end"
  /\ \E i \in TaskIds :
       /\ ST(i).optimized
       /\ i \notin runningTasks
       /\ resourceTimeline[eventIndex].week >= EarliestWeek(heap, i)
       /\ ST(i).startWeek >= resourceTimeline[eventIndex].week
       /\ NewResources(i, availableResources + resourceTimeline[eventIndex].resources)
            > ST(i).assignedResources

(***************************************************************************)
(* C12.  Idempotence: when the start weeks of a schedule are stored in the *)
(* tasks and the schedule is generated again from them (efforts,           *)
(* priorities and dependencies as before), every task gets the start week  *)
(* it had.                                                                 *)
(***************************************************************************)
C12_Idempotent ==
  (Scheduled /\ calls = 2) => \A i \in TaskIds : ST(i).startWeek = given[i].startWeek

(***************************************************************************)
(* C13.  Preemption scenario: when a task H of priority 5 and effort 4 is  *)
(* tried at its earliest dependency-satisfying week and a task L of        *)
(* priority 200, placed before, occupies weeks of that window in which the *)
(* remaining capacity is positive but less than H.assignedResources, then  *)
(* H is placed at that week and L is moved to H.startWeek + H.effort or    *)
(* later.                                                                  *)
(***************************************************************************)
\* task i has been placed by the placement loop
Placed(i) ==
  /\ sortedTasks # <<>>
  /\ \/ pc \in {"build", "timeline", "done"}
     \/ pc \in {"scan", "commit"} /\ PositionIn(sortedTasks, i) < cursor

\* the weeks of the window [week, week + effort of h) in which task l is active
SharedWeeks(h, week, l) ==
  {w \in week..(week + ST(h).effort - 1) :
     ST(l).startWeek <= w /\ w < ST(l).startWeek + ST(l).effort}

\* teamCapacity minus the usage of week w
RemainingCapacity(w) == teamCapacity - ArrayGet(resourcesUsedByWeek, w).v

PreemptionCase(h, l) ==
  /\ pc = "scan" /\ Acyclic
  /\ CurrentTask = h
  /\ startWeek = EarliestWeek(heap, h)
  /\ given[h].priority = 5 /\ given[h].effort = 4
  /\ given[l].priority = 200
  /\ Placed(l)
  /\ SharedWeeks(h, startWeek, l) # {}
  /\ \A w \in SharedWeeks(h, startWeek, l) :
       /\ ArrayGet(resourcesUsedByWeek, w).k = "num"
       /\ RemainingCapacity(w) > 0
       /\ RemainingCapacity(w) < ST(h).assignedResources

C13_PreemptionScenario ==
  [][\A h, l \in TaskIds :
       PreemptionCase(h, l) =>
         /\ pc' = "commit"
         /\ startWeek' = startWeek
         /\ ST(l)'.startWeek >= startWeek + ST(h).effort]_vars

(***************************************************************************)
(* C14.  Scenario: three tasks without dependencies, efforts 2, 3, 1,      *)
(* priorities 100, teamCapacity 2, maxEngineersPerTask 1.  Every task gets *)
(* one engineer and keeps its effort, exactly two tasks start at week 0,   *)
(* the third starts at week 2, and no week uses more than 2 engineers.     *)
(***************************************************************************)
PackingScenario ==
  /\ TaskIds = {1, 2, 3}
  /\ \A i \in TaskIds : given[i].priority = 100 /\ given[i].dependencies = <<>>
  /\ given[1].effort = 2 /\ given[2].effort = 3 /\ given[3].effort = 1
  /\ teamCapacity = 2 /\ maxEngineersPerTask = 1

C14_PackingScenario ==
  (pc = "done" /\ PackingScenario) =>
    /\ \A i \in TaskIds :
         ST(i).assignedResources = 1 /\ ST(i).effort = given[i].effort
    /\ Cardinality({i \in TaskIds : ST(i).startWeek = 0}) = 2
    /\ Cardinality({i \in TaskIds : ST(i).startWeek = 2}) = 1
    /\ \A w \in 0..Horizon : SumResources(ActiveAt(w)) <= 2

C14_Witness == pc = "done" /\ PackingScenario /\ ST(3).startWeek = 2

(***************************************************************************)
(* C15.  Scenario: two tasks, B depends on A, A.effort = 2, B.effort = 1,  *)
(* priorities 100, teamCapacity 5, maxEngineersPerTask 2.  Then            *)
(* A.startWeek = 0 and B.startWeek = 2.                                    *)
(***************************************************************************)
DependencyScenario(a, b) ==
  /\ TaskIds = {a, b} /\ a # b
  /\ given[a].effort = 2 /\ given[a].dependencies = <<>>
  /\ given[b].effort = 1 /\ given[b].dependencies = <<a>>
  /\ given[a].priority = 100 /\ given[b].priority = 100
  /\ teamCapacity = 5 /\ maxEngineersPerTask = 2

C15_DependencyScenario ==
  \A a, b \in TaskIds :
    (pc = "done" /\ DependencyScenario(a, b)) =>
      ST(a).startWeek = 0 /\ ST(b).startWeek = 2

C15_Witness ==
  /\ pc = "done" /\ DependencyScenario(2, 1)
  /\ ReturnedIds = <<2, 1>>

(***************************************************************************)
(* C16.  On an acyclic dependency graph, wouldCreateCycle(taskId,          *)
(* newDependencyId, allTasks) returns true exactly when taskId =           *)
(* newDependencyId or taskId can be reached from newDependencyId along     *)
(* dependencies, which is exactly when the graph with the added edge has a *)
(* cycle; in particular it returns false when a task is reached along two  *)
(* paths and the addition keeps the graph acyclic.                         *)
(***************************************************************************)
RECURSIVE ReachableFrom(_, _)
\* the ids reached from the ids of set along the dependency arrays of deps
ReachableFrom(deps, set) ==
  LET next == set \cup {j \in CheckedIds :
                         \E a \in set \cap DOMAIN deps : j \in SeqToSet(deps[a])}
  IN IF next = set THEN set ELSE ReachableFrom(deps, next)

\* the graph with the edge taskId -> newDependencyId has a cycle
CyclicWith(taskId, newDependencyId) ==
  LET deps == DependencyMapOf(given, taskId, newDependencyId)
  IN \E a \in DOMAIN deps : a \in ReachableFrom(deps, SeqToSet(deps[a]))

Checked == pc = "checked" /\ Acyclic

C16_WouldCreateCycle ==
  Checked =>
    /\ result.value <=>
         \/ result.taskId = result.newDependencyId
         \/ result.taskId \in ReachableFrom(GivenDependencies, {result.newDependencyId})
    /\ result.value <=> CyclicWith(result.taskId, result.newDependencyId)

\* task 4 is reached from task 1 through task 2 and through task 3
C16_Witness ==
  /\ Checked
  /\ given[1].dependencies = <<2, 3>>
  /\ given[2].dependencies = <<4>> /\ given[3].dependencies = <<4>>
  /\ result.taskId = 5 /\ result.newDependencyId = 1
  /\ ~result.value

(***************************************************************************)
(* C17.  In the placement order sortedTasks of an acyclic input every task *)
(* comes after each of its present dependencies, whatever the priorities.  *)
(***************************************************************************)
C17_PlacementOrder ==
  (Acyclic /\ sortedTasks # <<>>) =>
    \A t \in TaskIds : \A d \in PresentDependencies(t) :
      PositionIn(sortedTasks, d) < PositionIn(sortedTasks, t)

(***************************************************************************)
(* C18.  When tryRescheduleLowerPriorityTasks has committed a displacement *)
(* and the high priority task leaves the search at the candidate week w,   *)
(* every week of [w, w + effort) has usage + assignedResources <=          *)
(* teamCapacity in the accumulator the task is then added to.              *)
(***************************************************************************)
\* the step of the placement loop in which a displacement is committed
DisplacementStep == pc = "scan" /\ pc' = "commit" /\ heap' # heap

\* week w of the accumulator arr has room for resources more engineers; a
\* week past the end of the array is pushed as 0 before it is added to
WeekFits(arr, w, resources, cap) ==
  IF w >= Len(arr) THEN resources <= cap
  ELSE ArrayGet(arr, w).k = "num" /\ ArrayGet(arr, w).v + resources <= cap

C18_WindowFitsAfterDisplacement ==
  [][DisplacementStep =>
       \A w \in startWeek..(startWeek + ST(CurrentTask).effort - 1) :
         WeekFits(resourcesUsedByWeek', w, ST(CurrentTask).assignedResources,
                  teamCapacity)]_vars

(***************************************************************************)
(* C19.  Every task displaced by preemption (a) has been placed by the     *)
(* placement loop earlier in the run, (b) has a strictly larger priority   *)
(* value than the blocking task, and (c) occupies at least one week of the *)
(* blocking task's candidate window.                                       *)
(***************************************************************************)
C19_DisplacedTask ==
  [][DisplacementStep =>
       \A x \in ChangedTasks :
         /\ Placed(x)
         /\ ST(x).priority > ST(CurrentTask).priority
         /\ SharedWeeks(CurrentTask, startWeek, x) # {}]_vars

(***************************************************************************)
(* C20.  A committed displacement keeps the dependency invariant of the    *)
(* tasks placed so far: after task X is moved, every placed task that      *)
(* depends on X starts at X.startWeek + X.effort or later, and X starts no *)
(* earlier than the end of each of its present dependencies.               *)
(***************************************************************************)
\* the tasks placed so far that depend on task x
PlacedDependents(x) == {t \in TaskIds : Placed(t) /\ x \in PresentDependencies(t)}

C20_DisplacementKeepsDependencies ==
  [][DisplacementStep =>
       \A x \in ChangedTasks :
         /\ \A t \in PlacedDependents(x) :
              ST(t)'.startWeek >= ST(x)'.startWeek + ST(x)'.effort
         /\ \A d \in PresentDependencies(x) :
              ST(x)'.startWeek >= ST(d)'.startWeek + ST(d)'.effort]_vars

(***************************************************************************)
(* C21.  During the timeline traversal of an acyclic input the counter     *)
(* availableResources never drops below 0: the test availableResources < 0 *)
(* at the end of an iteration never succeeds.                              *)
(***************************************************************************)
\* an iteration of the traversal of the timeline
TraversalStep == pc = "timeline" /\ eventIndex' = eventIndex + 1

\* the engineers task i was granted in this iteration
GrantedResources(i) == ST(i)'.assignedResources - ST(i).assignedResources

\* availableResources at the test that ends the iteration, i being the task
\* the iteration accelerated if it accelerated one
AvailableBeforeClamp(i) ==
  LET event == resourceTimeline[eventIndex] IN
  IF event.action = "end"
    THEN availableResources + event.resources - GrantedResources(i)
    ELSE availableResources - event.resources

C21_NoOverallocation ==
  [][(TraversalStep /\ Acyclic) =>
       \A i \in TaskIds :
         ChangedTasks \subseteq {i} => AvailableBeforeClamp(i) >= 0]_vars

(***************************************************************************)
(* C22.  When the optimizer accelerates task T at an end event of week w,  *)
(* T's end event in the re-sorted timeline carries T's new                 *)
(* assignedResources, sits at T.startWeek + T.effort (the new effort), and *)
(* comes after T's start event.                                            *)
(***************************************************************************)
\* the index in timeline of the event of task t with the given action
EventIndexOf(timeline, t, action) ==
  CHOOSE x \in 1..Len(timeline) :
    timeline[x].task = t /\ timeline[x].action = action

C22_EndEventOfAccelerated ==
  [][\A t \in TaskIds :
       (TraversalStep /\ Acyclic /\ ChangedTasks = {t}) =>
         LET end == resourceTimeline'[EventIndexOf(resourceTimeline', t, "end")] IN
         /\ end.resources = ST(t)'.assignedResources
         /\ end.week = ST(t)'.startWeek + ST(t)'.effort
         /\ EventIndexOf(resourceTimeline', t, "start")
              < EventIndexOf(resourceTimeline', t, "end")]_vars

(***************************************************************************)
(* C23.  The optimizer preserves the capacity bound: if with the           *)
(* assignedResources and efforts of the placement pass every week's sum    *)
(* over the active tasks is at most teamCapacity, then so it is with the   *)
(* values the optimizer left (the start weeks being the same).             *)
(***************************************************************************)
\* the working copy of task i as the placement pass left it: the optimizer
\* writes assignedResources, effort and optimized only
PlacedTask(i) ==
  [ScheduleTaskOf(given[i], maxEngineersPerTask, teamCapacity)
     EXCEPT !.startWeek = ST(i).startWeek]

\* the engineers in use in week w after the placement pass
RECURSIVE PlacedUsage(_, _)
PlacedUsage(S, w) ==
  IF S = {} THEN 0
  ELSE LET x == CHOOSE y \in S : TRUE
           p == PlacedTask(x)
       IN (IF p.startWeek <= w /\ w < p.startWeek + p.effort
             THEN p.assignedResources ELSE 0)
          + PlacedUsage(S \ {x}, w)

PlacedHorizon == MaxOver({PlacedTask(i).startWeek + PlacedTask(i).effort : i \in TaskIds})

PlacementWithinCapacity ==
  \A w \in 0..PlacedHorizon : PlacedUsage(TaskIds, w) <= teamCapacity

C23_OptimizerKeepsCapacity ==
  (pc \in {"timeline", "done"} /\ Acyclic /\ PlacementWithinCapacity) =>
    \A w \in 0..Horizon : SumResources(ActiveAt(w)) <= teamCapacity

(***************************************************************************)
(* C24.  Accumulator consistency: throughout the first pass, after every   *)
(* placement and every committed displacement, resourcesUsedByWeek[w] is   *)
(* for every week w the sum of assignedResources of the tasks placed so    *)
(* far whose window [startWeek, startWeek + effort) contains w (a week     *)
(* past the end of the array counting as 0).                               *)
(***************************************************************************)
\* the tasks placed so far that are active in week w
PlacedActiveAt(w) == {i \in ActiveAt(w) : Placed(i)}

\* what the accumulator holds for week w
UsageAt(w) ==
  IF w >= Len(resourcesUsedByWeek) THEN Num(0) ELSE ArrayGet(resourcesUsedByWeek, w)

C24_AccumulatorConsistent ==
  (Acyclic /\ pc \in {"scan", "commit", "build"}) =>
    \A w \in 0..Max(Len(resourcesUsedByWeek), Horizon) :
      UsageAt(w) = Num(SumResources(PlacedActiveAt(w)))

(***************************************************************************)
(* C25.  The optimizer never changes a task of priority <= 100: its        *)
(* assignedResources and effort stay those of the allocation and its       *)
(* optimized flag is never set; only tasks of priority > 100 are           *)
(* accelerated.                                                            *)
(***************************************************************************)
C25_OnlyLowTierAccelerated ==
  (Allocated /\ Acyclic) =>
    \A i \in TaskIds :
      /\ given[i].priority <= MediumPriorityLimit =>
           /\ ST(i).assignedResources = PlacedTask(i).assignedResources
           /\ ST(i).effort = PlacedTask(i).effort
           /\ ~ST(i).optimized
      /\ ST(i).optimized => given[i].priority > MediumPriorityLimit

\* the traversal is at an end event where a medium priority task is the one
\* chosen among the waiting tasks, engineers being free, while a low
\* priority task has been accelerated before
C25_Witness ==
  /\ pc = "timeline" /\ Acyclic
  /\ eventIndex <= Len(resourceTimeline)
  /\ resourceTimeline[eventIndex].action = "end"
  /\ availableResources + resourceTimeline[eventIndex].resources > 0
  /\ SomeTaskOptimized
  /\ LET waiting == WaitingTasks(resourceTimeline[eventIndex].week,
                                 runningTasks \ {resourceTimeline[eventIndex].task})
     IN /\ waiting # <<>>
        /\ \E x \in 1..Len(waiting) :
             /\ ST(waiting[x]).priority = 50
             /\ \A y \in 1..Len(waiting) : ST(waiting[y]).priority >= 50

(***************************************************************************)
(* C26.  For a task of priority > 10 the start week the placement loop     *)
(* records is the least week w >= earliestWeek such that in every week of  *)
(* [w, w + effort) the usage of the accumulator plus the task's            *)
(* assignedResources is at most teamCapacity.                              *)
(***************************************************************************)
\* the window of the current task fits at week w in the accumulator
WindowFits(w) ==
  \A x \in w..(w + ST(CurrentTask).effort - 1) :
    WeekFits(resourcesUsedByWeek, x, ST(CurrentTask).assignedResources, teamCapacity)

\* the step that records the start week of the current task
PlacementStep == pc = "commit" /\ pc' # "commit"

C26_LeastFittingWeek ==
  [][\A i \in TaskIds :
       (PlacementStep /\ Acyclic /\ i = CurrentTask
          /\ ST(i).priority > HighPriorityLimit) =>
         /\ ST(i)'.startWeek >= EarliestWeek(heap, i)
         /\ WindowFits(ST(i)'.startWeek)
         /\ \A w \in EarliestWeek(heap, i)..(ST(i)'.startWeek - 1) :
              ~WindowFits(w)]_vars

(***************************************************************************)
(* C27.  A dependency id that matches no task of the input is treated as   *)
(* satisfied: it causes no cycle report, and the call returns the schedule *)
(* it returns for the same input without these ids: the same tasks in the  *)
(* same order with the same startWeek, effort, assignedResources and       *)
(* optimized flag.                                                         *)
(***************************************************************************)
\* two returned records agree in everything but the dependencies array
SameScheduleEntry(a, b) ==
  [a EXCEPT !.dependencies = <<>>] = [b EXCEPT !.dependencies = <<>>]

\* the records of the returned list
Returned == [x \in 1..Len(result.value) |-> heap[result.value[x]]]

\* the call returned its input: the report of a cycle
ReturnedInput == pc = "done" /\ result.value = tasks

C27_MissingDependencies ==
  /\ (pc = "done" /\ Acyclic) => ~ReturnedInput
  /\ (pc = "done" /\ calls >= 2) =>
       /\ Len(Returned) = Len(previous)
       /\ \A x \in 1..Len(Returned) : SameScheduleEntry(Returned[x], previous[x])

\* the second call has returned a schedule in which a task that named the
\* deleted task beside a present one waited for the present one
C27_Witness ==
  /\ pc = "done" /\ calls = 2 /\ Acyclic
  /\ \E x \in 1..Len(previous) :
       /\ MissingTaskId \in SeqToSet(previous[x].dependencies)
       /\ Len(previous[x].dependencies) = 2
       /\ previous[x].startWeek > 0
       /\ Returned[x].startWeek = previous[x].startWeek

(***************************************************************************)
(* C28.  After Generate Schedule has completed (calculateSchedule, then    *)
(* one PATCH /api/tasks/:id { startWeek } per returned task), the          *)
(* startWeek of every stored task is the startWeek calculateSchedule       *)
(* computed for it.                                                        *)
(***************************************************************************)
C28_StoredStartWeeks ==
  pc = "persisted" => \A i \in TaskIds : given[i].startWeek = PatchedStartWeek(i)

(***************************************************************************)
(* EditTaskDialog: the circular-dependency check of onSubmit.  Home hands  *)
(* the dialog the stored tasks without the edited one.                     *)
(***************************************************************************)
\* tasks.filter(t => t.id !== openEditTask.id)
DialogTasks(stored, edited) == [i \in DOMAIN stored \ {edited} |-> stored[i]]

RECURSIVE hasCyclicDependency(_, _, _, _), hasCyclicDependencyLoop(_, _, _, _, _)

\* hasCyclicDependency(taskId, dependencies, allTasks, visited)
hasCyclicDependency(taskId, dependencies, allTasks, visited) ==
  IF taskId \in visited THEN TRUE
  ELSE hasCyclicDependencyLoop(taskId, dependencies, allTasks,
                               visited \cup {taskId}, 1)

\* the for loop over dependencies; the recursive call gets a copy of visited
hasCyclicDependencyLoop(taskId, dependencies, allTasks, visited, n) ==
  IF n > Len(dependencies) THEN FALSE
  ELSE LET depId == dependencies[n] IN
       IF depId = taskId THEN TRUE
       ELSE IF /\ depId \in DOMAIN allTasks
               /\ Len(allTasks[depId].dependencies) > 0
               /\ hasCyclicDependency(taskId, allTasks[depId].dependencies,
                                      allTasks, visited)
            THEN TRUE
            ELSE hasCyclicDependencyLoop(taskId, dependencies, allTasks,
                                         visited, n + 1)

\* the stored list when the dialog opens: four tasks, acyclic
EditInit ==
  /\ \E d \in AcyclicDependencyChoices(CycleCheckTaskIds) :
       given = [i \in CycleCheckTaskIds |-> InputTask(i, 1, 100, d[i], 0)]
  /\ Called({2}, {2})

\* onSubmit of the dialog opened on task edited with selectedDependencies:
\* a toast and return when the check finds a cycle, the PATCH of the form
\* values otherwise
SubmitEdit ==
  /\ pc = "allocate"
  /\ \E edited \in TaskIds, selectedDependencies \in AllDepLists(TaskIds) :
       LET rejected == hasCyclicDependency(edited, selectedDependencies,
                                           DialogTasks(given, edited), {})
       IN /\ result' = [kind |-> "onSubmit", taskId |-> edited,
                        selectedDependencies |-> selectedDependencies,
                        value |-> rejected]
          /\ given' = IF rejected THEN given
                      ELSE [given EXCEPT ![edited] =
                              UpdatedTask(@, [dependencies |-> selectedDependencies])]
  /\ pc' = "submitted"
  /\ UNCHANGED <<calls, previous, heap, tasks, teamCapacity, maxEngineersPerTask,
                 engine, topoSortedTasks, sortedTasks, cursor, startWeek,
                 resourcesUsedByWeek, resourceTimeline, eventIndex,
                 availableResources, runningTasks>>

EditSpec == EditInit /\ [][SubmitEdit]_vars

\* the dependency arrays with those of task edited replaced by the selection
DependenciesWith(edited, selectedDependencies) ==
  [GivenDependencies EXCEPT ![edited] = selectedDependencies]

(***************************************************************************)
(* C29.  onSubmit of the edit dialog rejects the submission exactly when   *)
(* the selected dependencies make the edited task reachable from itself    *)
(* along dependencies; a selection whose dependency has dependencies of    *)
(* its own that do not lead back to the edited task is accepted.           *)
(***************************************************************************)
C29_CircularCheck ==
  [][(pc = "allocate" /\ pc' = "submitted") =>
       (result'.value <=>
          result'.taskId \in
            ReachableFrom(DependenciesWith(result'.taskId,
                                           result'.selectedDependencies),
                          SeqToSet(result'.selectedDependencies)))]_vars

(***************************************************************************)
(* DatabaseStorage.deleteTask(id).  The stored dependencies are arrays of  *)
(* text: the decimal strings of task ids, or whatever text a request put   *)
(* there; the ids of the rows need not be consecutive.                     *)
(***************************************************************************)
StoredIds == {1, 2, 3}
DeletedIds == StoredIds \cup {4}

\* id.toString()
IdToString(id) ==
  CASE id = 1 -> "1" [] id = 2 -> "2" [] id = 3 -> "3" [] id = 4 -> "4"

\* the arrays a row can hold: entries may repeat
StoredDependencyLists ==
  {<<>>} \cup {<<a>> : a \in {"1", "2", "3", "01"}}
         \cup {<<a, b>> : a, b \in {"1", "2", "4"}}

\* mutant of UpdatedDependencies: only the first entry equal to id is dropped
UpdatedDependenciesFirstOnly(dependencies, id) ==
  IF \E n \in 1..Len(dependencies) : dependencies[n] = IdToString(id)
  THEN LET first == CHOOSE n \in 1..Len(dependencies) :
                      /\ dependencies[n] = IdToString(id)
                      /\ \A k \in 1..(n - 1) : dependencies[k] # IdToString(id)
       IN SubSeq(dependencies, 1, first - 1)
            \o SubSeq(dependencies, first + 1, Len(dependencies))
  ELSE dependencies

\* task.dependencies.filter(dep => dep !== id.toString())
UpdatedDependencies(dependencies, id) ==
  SelectSeq(dependencies, LAMBDA dep : dep # IdToString(id))

\* task.dependencies.includes(id.toString())
DependsOn(task, id) ==
  \E n \in 1..Len(task.dependencies) : task.dependencies[n] = IdToString(id)

\* the rows after the loop of updates
AfterDependencyUpdates(allTasks, id) ==
  [i \in DOMAIN allTasks |->
     IF DependsOn(allTasks[i], id)
     THEN [allTasks[i] EXCEPT
             !.dependencies = UpdatedDependencies(allTasks[i].dependencies, id)]
     ELSE allTasks[i]]

\* db.delete(tasks).where(eq(tasks.id, id)).returning()
DeletedRows(rows, id) == {i \in DOMAIN rows : rows[i].id = id}

DeleteInit ==
  /\ \E ids \in SUBSET StoredIds :
       \E d \in [ids -> StoredDependencyLists], p \in [ids -> {50, 100}] :
         given = [i \in ids |-> InputTask(i, 1, p[i], d[i], 0)]
  /\ Called({2}, {2})

\* deleteTask(id), no other writer between its statements
DeleteTask ==
  /\ pc = "allocate"
  /\ \E id \in DeletedIds :
       LET updated == AfterDependencyUpdates(given, id)
           deleted == DeletedRows(updated, id)
       IN /\ given' = [i \in DOMAIN updated \ deleted |-> updated[i]]
          /\ result' = [kind |-> "deleteTask", id |-> id,
                        updated |-> {i \in DOMAIN given : DependsOn(given[i], id)},
                        value |-> Cardinality(deleted) > 0]
  /\ pc' = "deleted"
  /\ UNCHANGED <<calls, previous, heap, tasks, teamCapacity, maxEngineersPerTask,
                 engine, topoSortedTasks, sortedTasks, cursor, startWeek,
                 resourcesUsedByWeek, resourceTimeline, eventIndex,
                 availableResources, runningTasks>>

DeleteSpec == DeleteInit /\ [][DeleteTask]_vars

\* the fields of a stored task other than dependencies
OtherFields(task) == [task EXCEPT !.dependencies = <<>>]

(***************************************************************************)
(* C30.  After deleteTask(id), run without a concurrent writer, no stored  *)
(* task has id in its dependencies, no task with that id is stored, every  *)
(* other task is still stored with every field other than dependencies     *)
(* unchanged, and the value returned is true exactly when a task with that *)
(* id was stored.                                                          *)
(***************************************************************************)
C30_DeleteTask ==
  [][(pc = "allocate" /\ pc' = "deleted") =>
       /\ \A i \in DOMAIN given' : ~DependsOn(given'[i], result'.id)
       /\ DOMAIN given' = DOMAIN given \ {result'.id}
       /\ \A i \in DOMAIN given' : OtherFields(given'[i]) = OtherFields(given[i])
       /\ result'.value <=> result'.id \in DOMAIN given]_vars

\* task 1 is deleted; a stored task listed it twice, another keeps an entry
C30_Witness ==
  /\ pc = "deleted"
  /\ result.id = 1 /\ result.value
  /\ 2 \in result.updated /\ 3 \in result.updated
  /\ DOMAIN given = {2, 3}
  /\ given[2].dependencies = <<>>
  /\ given[3].dependencies = <<"2">>

====
